---- MODULE Spec2Model ----
(***************************************************************************)
(* Contagion simulation (src/model.py): Point, Cell and Model.             *)
(*                                                                         *)
(* Floats are modelled on the integer lattice: locations and directions    *)
(* are integer points, and distance(a, b) < CELL_RADIUS is decided on the  *)
(* squares (sqrt is monotone).  The random source random() in [0, 1) is    *)
(* modelled by the two draws 0 and 1/2, which keep both the location and   *)
(* the direction (angle 0 or pi) on the lattice.                           *)
(* The module projects.pj02.constants is not part of the sources; it       *)
(* is modelled from the specification's section 6 (INFECTED < IMMUNE,      *)
(* RECOVERY_PERIOD > 0, a bounding box with BOUNDS_WIDTH = MAX_X - MIN_X). *)
(* Spec and LiveSpec run the simulation from the constructor; FreeSpec     *)
(* starts it from two cells with any lattice location and direction;       *)
(* PlaceSpec runs the constructor under every small bounding box.          *)
(***************************************************************************)
EXTENDS Integers, Sequences, FiniteSets

VARIABLES
    pc,          \* "new" before Model(...), "idle" after it, "failed" after ValueError
    cfg,         \* the configuration: [RECOVERY_PERIOD, box]
    args,        \* the arguments Model.__init__ was called with
    population,  \* Model.population: sequence of cells
    time,        \* Model.time
    moved,       \* history: the population of the last tick when its contact pass started
    onset        \* history: per cell, Cell.tick calls made while infected since its
                 \* sickness was last set to INFECTED (-1: never set to INFECTED)

vars == <<pc, cfg, args, population, time, moved, onset>>

----------------------------------------------------------------------------
(* Bounds of the model *)

MaxCells == 3
MaxTime == 4
MaxRecovery == 5
MaxStep == 1
MaxBox == 1

----------------------------------------------------------------------------
(* constants (projects.pj02.constants, modelled from the specification) *)

VULNERABLE == 0
INFECTED == 1
IMMUNE == 3
RECOVERY_PERIOD == cfg.RECOVERY_PERIOD
CELL_RADIUS == 2
MAX_X == cfg.box.MAX_X
MIN_X == cfg.box.MIN_X
MAX_Y == cfg.box.MAX_Y
MIN_Y == cfg.box.MIN_Y
BOUNDS_WIDTH == MAX_X - MIN_X
BOUNDS_HEIGHT == MAX_Y - MIN_Y

\* the bounding box of the simulation: symmetric about the origin
SquareBox == [MIN_X |-> -1, MAX_X |-> 1, MIN_Y |-> -1, MAX_Y |-> 1]

\* every bounding box with corners in -MaxBox .. MaxBox
Boxes ==
    {b \in [MIN_X : -MaxBox .. MaxBox, MAX_X : -MaxBox .. MaxBox,
            MIN_Y : -MaxBox .. MaxBox, MAX_Y : -MaxBox .. MaxBox] :
        b.MIN_X < b.MAX_X /\ b.MIN_Y < b.MAX_Y}

\* the configurations: every recovery period from 1 to beyond IMMUNE + 1
Configs == [RECOVERY_PERIOD : 1 .. MaxRecovery, box : {SquareBox}]

----------------------------------------------------------------------------
(* Point *)

Point(x, y) == [x |-> x, y |-> y]

add(self, other) == Point(self.x + other.x, self.y + other.y)

\* distance(self, other) squared
distanceSq(self, other) ==
    (self.x - other.x) * (self.x - other.x) + (self.y - other.y) * (self.y - other.y)

\* distance(self, other) < r, for r >= 0
distance_less(self, other, r) == distanceSq(self, other) < r * r

----------------------------------------------------------------------------
(* Cell *)

\* Cell(location, direction); id is the object's identity
Cell(id, location, direction) ==
    [id |-> id, location |-> location, direction |-> direction, sickness |-> VULNERABLE]

is_vulnerable(self) == self.sickness = VULNERABLE

is_infected(self) == self.sickness >= INFECTED

is_immune(self) == self.sickness = IMMUNE

contract_disease(self) == [self EXCEPT !.sickness = INFECTED]

immunize(self) == [self EXCEPT !.sickness = IMMUNE]

Cell_tick(self) ==
    LET at == [self EXCEPT !.location = add(self.location, self.direction)]
        inc == [at EXCEPT !.sickness = @ + 1]
    IN  IF is_infected(at)
        THEN IF inc.sickness >= RECOVERY_PERIOD THEN immunize(inc) ELSE inc
        ELSE at

color(self) ==
    IF is_infected(self) THEN "red"
    ELSE IF is_immune(self) THEN "blue"
    ELSE "gray"

\* contact_with without its elif branch: only self can infect other
contact_with_oneway(self, other) ==
    IF is_infected(self) /\ is_vulnerable(other)
    THEN <<self, contract_disease(other)>>
    ELSE <<self, other>>

\* contact_with handing the two cells back in the wrong order
contact_with_swapped(self, other) ==
    IF is_infected(self) /\ is_vulnerable(other)
    THEN <<contract_disease(other), self>>
    ELSE IF is_vulnerable(self) /\ is_infected(other)
    THEN <<other, contract_disease(self)>>
    ELSE <<self, other>>

\* contact_with(self, other): the pair <<self, other>> after the call
contact_with(self, other) ==
    IF is_infected(self) /\ is_vulnerable(other)
    THEN <<self, contract_disease(other)>>
    ELSE IF is_vulnerable(self) /\ is_infected(other)
    THEN <<contract_disease(self), other>>
    ELSE <<self, other>>

----------------------------------------------------------------------------
(* Model *)

\* the values of random(), in halves: k stands for k / 2
Draws == {0, 1}

\* random() * BOUNDS_WIDTH - MAX_X with random() = kx / 2 (and y alike)
random_location(kx, ky) ==
    Point((kx * BOUNDS_WIDTH) \div 2 - MAX_X, (ky * BOUNDS_HEIGHT) \div 2 - MAX_Y)

\* random_angle = 2.0 * pi * random() with random() = k / 2: cos is 1 or -1, sin is 0
random_direction(k, speed) == Point((1 - 2 * k) * speed, 0 * speed)

\* enforce_bounds that clamps the location but keeps the direction
enforce_bounds_no_flip(cell) ==
    IF cell.location.x > MAX_X
    THEN [cell EXCEPT !.location.x = MAX_X]
    ELSE IF cell.location.x < MIN_X
    THEN [cell EXCEPT !.location.x = MIN_X]
    ELSE IF cell.location.y > MAX_Y
    THEN [cell EXCEPT !.location.y = MAX_Y]
    ELSE IF cell.location.y < MIN_Y
    THEN [cell EXCEPT !.location.y = MIN_Y]
    ELSE cell

\* enforce_bounds without its two branches for y
enforce_bounds_no_y(cell) ==
    IF cell.location.x > MAX_X
    THEN [cell EXCEPT !.location.x = MAX_X, !.direction.x = -@]
    ELSE IF cell.location.x < MIN_X
    THEN [cell EXCEPT !.location.x = MIN_X, !.direction.x = -@]
    ELSE cell

\* enforce_bounds with the y branches in an if of their own
enforce_bounds_both_axes(cell) ==
    LET cx == IF cell.location.x > MAX_X
              THEN [cell EXCEPT !.location.x = MAX_X, !.direction.x = -@]
              ELSE IF cell.location.x < MIN_X
              THEN [cell EXCEPT !.location.x = MIN_X, !.direction.x = -@]
              ELSE cell
    IN  IF cx.location.y > MAX_Y
        THEN [cx EXCEPT !.location.y = MAX_Y, !.direction.y = -@]
        ELSE IF cx.location.y < MIN_Y
        THEN [cx EXCEPT !.location.y = MIN_Y, !.direction.y = -@]
        ELSE cx

enforce_bounds(cell) ==
    IF cell.location.x > MAX_X
    THEN [cell EXCEPT !.location.x = MAX_X, !.direction.x = -@]
    ELSE IF cell.location.x < MIN_X
    THEN [cell EXCEPT !.location.x = MIN_X, !.direction.x = -@]
    ELSE IF cell.location.y > MAX_Y
    THEN [cell EXCEPT !.location.y = MAX_Y, !.direction.y = -@]
    ELSE IF cell.location.y < MIN_Y
    THEN [cell EXCEPT !.location.y = MIN_Y, !.direction.y = -@]
    ELSE cell

\* one iteration of the inner while loop of check_contacts: the cell at index c
\* against the cell at index i; used is the set of identities in used_cells
contacts_step(pop, used, c, i) ==
    IF pop[c].id = pop[i].id \/ pop[i].id \in used
    THEN pop
    ELSE IF distance_less(pop[c].location, pop[i].location, CELL_RADIUS)
    THEN LET r == contact_with(pop[c], pop[i])
         IN  [pop EXCEPT ![c] = r[1], ![i] = r[2]]
    ELSE pop

\* the inner while loop of check_contacts for the cell at index c, from index i on
\* (the singleton sets make each intermediate population a value before it is used)
RECURSIVE contacts_inner(_, _, _, _)
contacts_inner(pop, used, c, i) ==
    IF i > Len(pop) THEN pop
    ELSE CHOOSE r \in {contacts_inner(p, used, c, i + 1) :
                           p \in {contacts_step(pop, used, c, i)}} : TRUE

\* the outer for loop of check_contacts, from index c on
RECURSIVE contacts_outer(_, _, _)
contacts_outer(pop, used, c) ==
    IF c > Len(pop) THEN pop
    ELSE CHOOSE r \in {contacts_outer(q, used \cup {pop[c].id}, c + 1) :
                           q \in {contacts_inner(pop, used \cup {pop[c].id}, c, 1)}} : TRUE

check_contacts(pop) == contacts_outer(pop, {}, 1)

\* the inner while loop of check_contacts without the test on used_cells
RECURSIVE tests_inner_all(_, _, _, _)
tests_inner_all(pop, used, c, i) ==
    IF i > Len(pop) THEN << >>
    ELSE IF pop[c].id = pop[i].id
    THEN tests_inner_all(pop, used, c, i + 1)
    ELSE << [self |-> pop[c].id, other |-> pop[i].id,
             contact |-> distance_less(pop[c].location, pop[i].location, CELL_RADIUS)] >>
         \o tests_inner_all(pop, used, c, i + 1)

\* the distance tests the inner while loop of check_contacts makes for the cell at
\* index c, from index i on, in order; contact tells whether contact_with is called
RECURSIVE tests_inner(_, _, _, _)
tests_inner(pop, used, c, i) ==
    IF i > Len(pop) THEN << >>
    ELSE IF pop[c].id = pop[i].id \/ pop[i].id \in used
    THEN tests_inner(pop, used, c, i + 1)
    ELSE << [self |-> pop[c].id, other |-> pop[i].id,
             contact |-> distance_less(pop[c].location, pop[i].location, CELL_RADIUS)] >>
         \o tests_inner(pop, used, c, i + 1)

\* the distance tests of the outer for loop of check_contacts, from index c on
RECURSIVE tests_outer(_, _, _)
tests_outer(pop, used, c) ==
    IF c > Len(pop) THEN << >>
    ELSE tests_inner(pop, used \cup {pop[c].id}, c, 1)
         \o tests_outer(pop, used \cup {pop[c].id}, c + 1)

\* the distance tests of one check_contacts() pass (locations do not change in it)
contact_tests(pop) == tests_outer(pop, {}, 1)

is_complete(pop) == ~ \E i \in 1 .. Len(pop) : is_infected(pop[i])

\* the for loop of Model.tick: Cell.tick, then enforce_bounds, on every cell
move_all(pop) == [i \in 1 .. Len(pop) |-> enforce_bounds(Cell_tick(pop[i]))]

\* Model.tick with the contact pass before the loop that moves the cells
tick_population_contacts_first(pop) == move_all(check_contacts(pop))

\* the population after Model.tick: the loop over the cells, then the contact pass
tick_population(pop) == check_contacts(move_all(pop))

\* Model.__init__ without its third check
init_raises_no_sum(cells, start_infected, start_immune) ==
    \/ start_infected >= cells \/ start_infected <= 0
    \/ start_immune >= cells \/ start_immune < 0

\* the three conditions under which Model.__init__ raises ValueError
init_raises(cells, start_infected, start_immune) ==
    \/ start_infected >= cells \/ start_infected <= 0
    \/ start_immune >= cells \/ start_immune < 0
    \/ start_immune + start_infected >= cells

\* Model.__init__ whose second loop seeds one cell too few as infected
build_population_short(cells, speed, start_infected, start_immune, loc, ang) ==
    LET nv == cells - start_infected - start_immune
        fresh(i) == Cell(i, random_location(loc[i][1], loc[i][2]),
                         random_direction(ang[i], speed))
    IN  [i \in 1 .. cells |->
            IF i <= nv THEN fresh(i)
            ELSE IF i < nv + start_infected
            THEN [fresh(i) EXCEPT !.sickness = INFECTED]
            ELSE [fresh(i) EXCEPT !.sickness = IMMUNE]]

\* the population the three loops of Model.__init__ build from the draws
\* loc[i] = <<kx, ky>> and ang[i] of the i-th cell created
build_population(cells, speed, start_infected, start_immune, loc, ang) ==
    LET nv == cells - start_infected - start_immune
        fresh(i) == Cell(i, random_location(loc[i][1], loc[i][2]),
                         random_direction(ang[i], speed))
    IN  [i \in 1 .. cells |->
            IF i <= nv THEN fresh(i)
            ELSE IF i <= nv + start_infected
            THEN [fresh(i) EXCEPT !.sickness = INFECTED]
            ELSE [fresh(i) EXCEPT !.sickness = IMMUNE]]

----------------------------------------------------------------------------
(* Inputs *)

Speeds == {1}
CellCounts == 0 .. MaxCells
Steps == (-MaxStep) .. MaxStep
SeedCounts == -1 .. MaxCells
NoArgs == [cells |-> 0, speed |-> 0, start_infected |-> 0, start_immune |-> 0]

----------------------------------------------------------------------------
(* History *)

\* onset counters after the move loop: one more for each cell that Cell.tick found
\* infected (the counter stops at MaxTime)
onset_after_move(pop, on) ==
    [i \in 1 .. Len(pop) |->
        IF on[i] >= 0 /\ on[i] < MaxTime /\ is_infected(pop[i])
        THEN on[i] + 1 ELSE on[i]]

\* onset counters after the contact pass: 0 for each cell contract_disease was called on
onset_after_contacts(before, after, on) ==
    [i \in 1 .. Len(before) |->
        IF is_vulnerable(before[i]) /\ ~ is_vulnerable(after[i]) THEN 0 ELSE on[i]]

----------------------------------------------------------------------------
(* Actions *)

Init ==
    /\ pc = "new"
    /\ cfg \in Configs
    /\ args = NoArgs
    /\ population = << >>
    /\ time = 0
    /\ moved = << >>
    /\ onset = << >>

\* Model(cells, speed, start_infected, start_immune) raising ValueError
ConstructFails ==
    /\ pc = "new"
    /\ \E cells \in CellCounts, speed \in Speeds,
          start_infected \in SeedCounts, start_immune \in SeedCounts :
        /\ init_raises(cells, start_infected, start_immune)
        /\ args' = [cells |-> cells, speed |-> speed,
                    start_infected |-> start_infected, start_immune |-> start_immune]
    /\ pc' = "failed"
    /\ population' = << >>
    /\ UNCHANGED <<cfg, time, moved, onset>>

\* Model(cells, speed, start_infected, start_immune) returning
Construct ==
    /\ pc = "new"
    /\ \E cells \in CellCounts, speed \in Speeds,
          start_infected \in SeedCounts, start_immune \in SeedCounts :
        /\ ~ init_raises(cells, start_infected, start_immune)
        /\ args' = [cells |-> cells, speed |-> speed,
                    start_infected |-> start_infected, start_immune |-> start_immune]
        /\ \E loc \in [1 .. cells -> Draws \X Draws], ang \in [1 .. cells -> Draws] :
            population' = build_population(cells, speed, start_infected,
                                           start_immune, loc, ang)
    /\ pc' = "idle"
    /\ onset' = [i \in 1 .. Len(population') |->
                    IF population'[i].sickness = INFECTED THEN 0 ELSE -1]
    /\ moved' = << >>
    /\ UNCHANGED <<cfg, time>>

\* the body of Model.tick() but for self.time
TickBody ==
    /\ pc = "idle"
    /\ moved' = move_all(population)
    /\ population' = tick_population(population)
    /\ onset' = onset_after_contacts(moved', population',
                                     onset_after_move(population, onset))
    /\ UNCHANGED <<pc, cfg, args>>

\* Model.tick(), at most MaxTime times
Tick ==
    /\ time < MaxTime
    /\ time' = time + 1
    /\ TickBody

\* Model.tick() called for ever: the model's clock stops counting at MaxTime
TickOn ==
    /\ time' = IF time < MaxTime THEN time + 1 ELSE time
    /\ TickBody

Next == ConstructFails \/ Construct \/ Tick

Spec == Init /\ [][Next]_vars

\* the state right after Model(cells, speed, 1, 0): one infected cell among
\* vulnerable ones
InitOneInfected ==
    /\ pc = "idle"
    /\ cfg \in Configs
    /\ \E cells \in CellCounts, speed \in Speeds :
        /\ ~ init_raises(cells, 1, 0)
        /\ args = [cells |-> cells, speed |-> speed,
                   start_infected |-> 1, start_immune |-> 0]
        /\ \E loc \in [1 .. cells -> Draws \X Draws], ang \in [1 .. cells -> Draws] :
            population = build_population(cells, speed, 1, 0, loc, ang)
    /\ onset = [i \in 1 .. Len(population) |->
                    IF population[i].sickness = INFECTED THEN 0 ELSE -1]
    /\ moved = << >>
    /\ time = 0

\* the driver's loop: call tick() again and again
NextLive == TickOn

LiveSpec == InitOneInfected /\ [][NextLive]_vars /\ WF_vars(TickOn)

\* two cells, one vulnerable and one infected, anywhere in the box and with any
\* direction speed * (cos, sin) of the lattice, right after construction
InitFree ==
    /\ pc = "idle"
    /\ cfg = [RECOVERY_PERIOD |-> MaxRecovery, box |-> SquareBox]
    /\ args = [cells |-> 2, speed |-> MaxStep, start_infected |-> 1, start_immune |-> 0]
    /\ \E x1, x2 \in MIN_X .. MAX_X, y1, y2 \in MIN_Y .. MAX_Y,
          dx1, dy1, dx2, dy2 \in Steps :
        population = << Cell(1, Point(x1, y1), Point(dx1, dy1)),
                        [Cell(2, Point(x2, y2), Point(dx2, dy2))
                            EXCEPT !.sickness = INFECTED] >>
    /\ onset = <<-1, 0>>
    /\ moved = << >>
    /\ time = 0

NextFree == Tick

FreeSpec == InitFree /\ [][NextFree]_vars

\* before construction, under any bounding box
InitPlace ==
    /\ pc = "new"
    /\ cfg \in [RECOVERY_PERIOD : {1}, box : Boxes]
    /\ args = NoArgs
    /\ population = << >>
    /\ time = 0
    /\ moved = << >>
    /\ onset = << >>

NextPlace == ConstructFails \/ Construct

PlaceSpec == InitPlace /\ [][NextPlace]_vars

\* before construction, with the longest recovery period
InitPass ==
    /\ pc = "new"
    /\ cfg = [RECOVERY_PERIOD |-> MaxRecovery, box |-> SquareBox]
    /\ args = NoArgs
    /\ population = << >>
    /\ time = 0
    /\ moved = << >>
    /\ onset = << >>

\* the first Model.tick() after construction
FirstTick ==
    /\ time = 0
    /\ Tick

NextPass == Construct \/ FirstTick

PassSpec == InitPass /\ [][NextPass]_vars

----------------------------------------------------------------------------
(* Properties *)

Cells == 1 .. Len(population)

\* the specification's infected state: INFECTED <= sickness < IMMUNE
infected_state(c) == INFECTED <= c.sickness /\ c.sickness < IMMUNE

\* the last tick's contact pass started from the population moved
pass_done == pc = "idle" /\ Len(moved) = Len(population) /\ Len(moved) > 0

\* C1: constructing a valid Model and calling tick() again and again leads to a state
\* in which is_complete() returns True.
C1_EventuallyComplete == <>(pc = "idle" /\ is_complete(population))

\* C2: is_complete() returns False if some cell has INFECTED <= sickness < IMMUNE and
\* True if none has.
C2_CompleteIffNoneInfected ==
    pc = "idle" =>
        (is_complete(population) <=> ~ \E i \in Cells : infected_state(population[i]))

\* C3: two distinct cells a, b closer than CELL_RADIUS when the contact pass starts, a
\* infected and b vulnerable, leave b with sickness = INFECTED when the pass ends,
\* whichever of the two comes first in the population.
C3_ContactTransmits ==
    pass_done =>
        \A a, b \in Cells :
            ( /\ a # b
              /\ distance_less(moved[a].location, moved[b].location, CELL_RADIUS)
              /\ infected_state(moved[a])
              /\ is_vulnerable(moved[b]) )
            => population[b].sickness = INFECTED

\* a pass in which a vulnerable cell caught the disease from the only infected cell,
\* which comes later in the population
C3_Witness ==
    /\ pass_done
    /\ \E a, b \in Cells :
        /\ b < a
        /\ distance_less(moved[a].location, moved[b].location, CELL_RADIUS)
        /\ infected_state(moved[a]) /\ is_vulnerable(moved[b])
        /\ population[b].sickness = INFECTED
        /\ \A o \in Cells \ {a, b} : ~ is_infected(moved[o])

\* C4: a cell whose sickness was set to INFECTED is still infected, and not immune,
\* after fewer than RECOVERY_PERIOD calls of Cell.tick made while infected, and has
\* sickness = IMMUNE after the RECOVERY_PERIOD-th.
C4_RecoversAfterExactlyR ==
    pc = "idle" =>
        \A i \in Cells :
            /\ (onset[i] >= 0 /\ onset[i] < RECOVERY_PERIOD)
                => (infected_state(population[i]) /\ ~ is_immune(population[i]))
            /\ onset[i] = RECOVERY_PERIOD => population[i].sickness = IMMUNE

\* C5: no Model.tick() call after construction lowers the sickness of any cell.
C5_SicknessNeverDecreases ==
    [][pc = "idle" =>
        \A i \in Cells : population'[i].sickness >= population[i].sickness]_vars

\* C6: Model(cells, speed, start_infected, start_immune) raises ValueError if and only
\* if start_infected <= 0, start_infected >= cells, start_immune < 0, start_immune >=
\* cells or start_infected + start_immune >= cells; after the error no cell was built.
C6_ValidationIff ==
    pc # "new" =>
        /\ pc = "failed" <=>
            \/ args.start_infected <= 0
            \/ args.start_infected >= args.cells
            \/ args.start_immune < 0
            \/ args.start_immune >= args.cells
            \/ args.start_infected + args.start_immune >= args.cells
        /\ pc = "failed" => population = << >>
        /\ pc = "idle" => Len(population) > 0

\* a construction that fails on the sum of the two seed counts alone
C6_Witness ==
    /\ pc = "failed"
    /\ args.start_infected > 0 /\ args.start_infected < args.cells
    /\ args.start_immune >= 0 /\ args.start_immune < args.cells
    /\ args.start_infected + args.start_immune >= args.cells

\* C7: right after a valid construction the population has exactly cells members:
\* start_infected with sickness = INFECTED, start_immune with sickness = IMMUNE, the
\* others with sickness = VULNERABLE; and time = 0.
C7_InitialComposition ==
    [][(pc = "new" /\ pc' = "idle") =>
        LET with(v) == Cardinality({i \in 1 .. Len(population') :
                                        population'[i].sickness = v})
        IN  /\ Len(population') = args'.cells
            /\ with(INFECTED) = args'.start_infected
            /\ with(IMMUNE) = args'.start_immune
            /\ with(VULNERABLE) =
                   args'.cells - args'.start_infected - args'.start_immune
            /\ time' = 0]_vars

\* a fresh population seeded with infected, immune and vulnerable cells
C7_Witness ==
    /\ pc = "idle" /\ time = 0
    /\ args.start_immune >= 1 /\ args.start_infected >= 1
    /\ Len(population) = args.cells

\* C8: with INFECTED < IMMUNE, every cell is in exactly one of the states
\* is_vulnerable(), is_infected(), is_immune(); none is both infected and immune.
C8_ExactlyOneState ==
    pc = "idle" =>
        \A i \in Cells :
            LET c == population[i]
            IN  /\ is_vulnerable(c) \/ is_infected(c) \/ is_immune(c)
                /\ ~ (is_vulnerable(c) /\ is_infected(c))
                /\ ~ (is_vulnerable(c) /\ is_immune(c))
                /\ ~ (is_infected(c) /\ is_immune(c))

\* C9: a cell with sickness = IMMUNE has sickness = IMMUNE after every later tick.
C9_ImmuneIsTerminal ==
    [][pc = "idle" =>
        \A i \in Cells :
            population[i].sickness = IMMUNE => population'[i].sickness = IMMUNE]_vars

\* C10: after construction no tick changes the length of the population, nor the
\* identity or the order of its cells.
C10_FixedPopulation ==
    [][pc = "idle" =>
        /\ Len(population') = Len(population)
        /\ \A i \in Cells : population'[i].id = population[i].id]_vars

\* a tick whose contact pass infected a cell of a population of three
C10_Witness ==
    /\ pass_done
    /\ Len(population) = 3
    /\ \E i \in Cells : is_vulnerable(moved[i]) /\ ~ is_vulnerable(population[i])

\* the cell lies within the bounds of the x axis, of the y axis
in_x(c) == MIN_X <= c.location.x /\ c.location.x <= MAX_X
in_y(c) == MIN_Y <= c.location.y /\ c.location.y <= MAX_Y

\* C11: enforce_bounds(cell) on a cell out of bounds on exactly one side sets that
\* coordinate to the violated bound and negates the direction on that axis, changing
\* nothing else; a cell inside the bounds is left unchanged.
C11_BoundaryReflection ==
    [][pc = "idle" =>
        \A i \in Cells :
            LET s == Cell_tick(population[i])
                e == moved'[i]
            IN  /\ (s.location.x > MAX_X /\ in_y(s)) =>
                    e = [s EXCEPT !.location.x = MAX_X, !.direction.x = -s.direction.x]
                /\ (s.location.x < MIN_X /\ in_y(s)) =>
                    e = [s EXCEPT !.location.x = MIN_X, !.direction.x = -s.direction.x]
                /\ (s.location.y > MAX_Y /\ in_x(s)) =>
                    e = [s EXCEPT !.location.y = MAX_Y, !.direction.y = -s.direction.y]
                /\ (s.location.y < MIN_Y /\ in_x(s)) =>
                    e = [s EXCEPT !.location.y = MIN_Y, !.direction.y = -s.direction.y]
                /\ (in_x(s) /\ in_y(s)) => e = s]_vars

\* a cell that has just been reflected at MAX_X, within the bounds of y
C11_Witness ==
    /\ pass_done
    /\ \E i \in Cells :
        /\ moved[i].location.x = MAX_X
        /\ moved[i].direction.x < 0
        /\ in_y(moved[i])

\* C12: color() is "red" for a cell with INFECTED <= sickness < IMMUNE, "blue" for a
\* cell with sickness = IMMUNE and "gray" for every other cell.
C12_ColourByState ==
    pc = "idle" =>
        \A i \in Cells :
            color(population[i]) =
                IF infected_state(population[i]) THEN "red"
                ELSE IF population[i].sickness = IMMUNE THEN "blue"
                ELSE "gray"

\* C13: under every bounding box, every cell the constructor builds lies within
\* MIN_X <= x <= MAX_X and MIN_Y <= y <= MAX_Y.
C13_PlacedInsideBox ==
    pc = "idle" => \A i \in Cells : in_x(population[i]) /\ in_y(population[i])

\* the cases in which the claim C14 says a contact has no effect
no_effect_case(a, b) ==
    \/ is_immune(a) \/ is_immune(b)
    \/ infected_state(a) /\ infected_state(b)
    \/ is_vulnerable(a) /\ is_vulnerable(b)

\* C14: contact_with(a, b) changes neither cell when one of them is immune, both are
\* infected or both are vulnerable, and a contact pass changes a cell only if a cell
\* closer than CELL_RADIUS is infected; an immune cell never infects a vulnerable one.
C14_ContactsWithoutEffect ==
    pc = "idle" =>
        /\ \A a, b \in Cells :
            (a # b /\ no_effect_case(population[a], population[b]))
            => contact_with(population[a], population[b])
                   = <<population[a], population[b]>>
        /\ pass_done =>
            \A b \in Cells :
                moved[b].sickness # population[b].sickness =>
                    \E a \in Cells \ {b} :
                        /\ distance_less(moved[a].location, moved[b].location,
                                         CELL_RADIUS)
                        /\ infected_state(population[a])

\* the index of the cell with identity id
index_of(pop, id) == CHOOSE j \in 1 .. Len(pop) : pop[j].id = id

\* the population after the contact_with calls a sequence of distance tests tells of
RECURSIVE replay(_, _)
replay(pop, log) ==
    IF log = << >> THEN pop
    ELSE LET c == index_of(pop, Head(log).self)
             i == index_of(pop, Head(log).other)
             r == contact_with(pop[c], pop[i])
         IN  replay(IF Head(log).contact
                    THEN [pop EXCEPT ![c] = r[1], ![i] = r[2]] ELSE pop,
                    Tail(log))

\* C15: one check_contacts() pass makes the distance test exactly once for every
\* unordered pair of distinct cells, never for a cell against itself, and calls
\* contact_with for a pair exactly when its distance is less than CELL_RADIUS.
C15_PairCoverage ==
    pass_done =>
        LET log == contact_tests(moved)
            tests_of(a, b) ==
                {k \in 1 .. Len(log) :
                    {log[k].self, log[k].other} = {moved[a].id, moved[b].id}}
        IN  /\ \A k \in 1 .. Len(log) : log[k].self # log[k].other
            /\ \A a, b \in Cells : a < b => Cardinality(tests_of(a, b)) = 1
            /\ \A a, b \in Cells : a < b =>
                \A k \in tests_of(a, b) :
                    log[k].contact <=>
                        distance_less(moved[a].location, moved[b].location, CELL_RADIUS)
            /\ replay(moved, log) = population

\* a pass over three cells with a pair in contact and a pair out of contact
C15_Witness ==
    /\ pass_done
    /\ Len(moved) = 3
    /\ \E k \in 1 .. Len(contact_tests(moved)) : contact_tests(moved)[k].contact
    /\ \E k \in 1 .. Len(contact_tests(moved)) : ~ contact_tests(moved)[k].contact

\* the orders of a population of n cells, and a population put in one of them
Orders(n) == {p \in [1 .. n -> 1 .. n] : \A i, j \in 1 .. n : i # j => p[i] # p[j]}
reordered(pop, p) == [i \in 1 .. Len(pop) |-> pop[p[i]]]

\* the sickness of every cell, by identity
sickness_of(pop) == {<<pop[i].id, pop[i].sickness>> : i \in 1 .. Len(pop)}

\* cell a of pop is closer than CELL_RADIUS to a cell with is_infected() true
near_infected(pop, a) ==
    \E c \in 1 .. Len(pop) :
        /\ c # a
        /\ is_infected(pop[c])
        /\ distance_less(pop[a].location, pop[c].location, CELL_RADIUS)

\* no vulnerable cell can catch the disease in the pass from a cell that caught it in
\* the pass only: of two vulnerable cells closer than CELL_RADIUS, either both are
\* closer than CELL_RADIUS to a cell with is_infected() true or neither is
no_relay(pop) ==
    \A a, b \in 1 .. Len(pop) :
        (/\ a # b
         /\ is_vulnerable(pop[a]) /\ is_vulnerable(pop[b])
         /\ distance_less(pop[a].location, pop[b].location, CELL_RADIUS)
         /\ near_infected(pop, a))
        => near_infected(pop, b)

\* C16 as claimed: check_contacts() leaves every cell with the same sickness whatever
\* the order of the cells in the population.
C16_OrderIndependent ==
    pass_done =>
        \A p \in Orders(Len(moved)) :
            sickness_of(check_contacts(reordered(moved, p)))
                = sickness_of(check_contacts(moved))

\* C16 as amended: check_contacts() leaves every cell with the same sickness whatever
\* the order of the cells, when of any two vulnerable cells closer than CELL_RADIUS
\* either both or neither are closer than CELL_RADIUS to a cell with is_infected() true.
C16_OrderIndependentNoRelay ==
    (pass_done /\ no_relay(moved)) =>
        LET result == sickness_of(check_contacts(moved))
        IN  \A p \in Orders(Len(moved)) :
                sickness_of(check_contacts(reordered(moved, p))) = result

\* a pass over three cells that infected two vulnerable cells in contact with each
\* other, both in contact with the infected one
C16_Witness ==
    /\ pass_done
    /\ Len(moved) = 3
    /\ no_relay(moved)
    /\ \E i, j \in Cells :
        /\ i # j
        /\ is_vulnerable(moved[i]) /\ ~ is_vulnerable(population[i])
        /\ is_vulnerable(moved[j]) /\ ~ is_vulnerable(population[j])
        /\ distance_less(moved[i].location, moved[j].location, CELL_RADIUS)

\* C17: one tick() adds exactly 1 to time, leaves every cell where Cell.tick and
\* enforce_bounds put it, and makes its contact pass on those locations: a cell that
\* stops being vulnerable in the tick is close, after the move, to an infected cell and
\* ends the tick with sickness = INFECTED, and a vulnerable cell close after the move
\* to a cell infected after the move is infected.
C17_TickPhases ==
    [][pc = "idle" =>
        LET m == [i \in Cells |-> enforce_bounds(Cell_tick(population[i]))]
        IN  /\ time' = time + 1
            /\ \A i \in Cells :
                /\ population'[i].location = m[i].location
                /\ population'[i].direction = m[i].direction
            /\ \A i \in Cells :
                (is_vulnerable(population[i]) /\ ~ is_vulnerable(population'[i])) =>
                    /\ population'[i].sickness = INFECTED
                    /\ \E j \in Cells \ {i} :
                        /\ distance_less(m[i].location, m[j].location, CELL_RADIUS)
                        /\ is_infected(population'[j])
            /\ \A i, j \in Cells :
                (/\ i # j
                 /\ is_vulnerable(m[i]) /\ is_infected(m[j])
                 /\ distance_less(m[i].location, m[j].location, CELL_RADIUS))
                => population'[i].sickness = INFECTED]_vars

\* the second tick infected a cell
C17_Witness ==
    /\ pass_done
    /\ time = 2
    /\ \E i \in Cells : is_vulnerable(moved[i]) /\ population[i].sickness = INFECTED

\* C18: enforce_bounds changes at most one axis of a cell and looks at x before y: a
\* cell moved out of bounds on x has its y location and direction left alone, and one
\* out on both axes has x clamped and direction.x negated while it stays out on y.
C18_ReflectionPrecedence ==
    [][pc = "idle" =>
        \A i \in Cells :
            LET s == Cell_tick(population[i])
                e == moved'[i]
                same_x == e.location.x = s.location.x /\ e.direction.x = s.direction.x
                same_y == e.location.y = s.location.y /\ e.direction.y = s.direction.y
            IN  /\ same_x \/ same_y
                /\ ~ in_x(s) => same_y
                /\ (~ in_x(s) /\ ~ in_y(s)) =>
                    /\ e.location.x = IF s.location.x > MAX_X THEN MAX_X ELSE MIN_X
                    /\ e.direction.x = - s.direction.x
                    /\ ~ in_y(e)]_vars

\* a cell reflected on x and left out of bounds on y
C18_Witness ==
    /\ pass_done
    /\ \E i \in Cells :
        /\ moved[i].location.x = MAX_X /\ moved[i].direction.x < 0
        /\ moved[i].location.y > MAX_Y

\* C19 as claimed: cells that start inside the bounding box are inside it after every
\* tick().
C19_Containment ==
    (pc = "idle" /\ time >= 1) =>
        \A i \in Cells :
            /\ MIN_X <= population[i].location.x /\ population[i].location.x <= MAX_X
            /\ MIN_Y <= population[i].location.y /\ population[i].location.y <= MAX_Y

\* C19 as amended: cells that start inside the bounding box have MIN_X <= x <= MAX_X
\* after every tick(), and MIN_Y <= y <= MAX_Y after every tick() whose move left x
\* within bounds.
C19_ContainmentOnX ==
    [][pc = "idle" =>
        \A i \in Cells :
            LET s == Cell_tick(population[i])
            IN  /\ in_x(population'[i])
                /\ in_x(s) => in_y(population'[i])]_vars

\* a cell held in on y by a tick whose move left x within bounds
C19_Witness ==
    /\ pass_done
    /\ \E i \in Cells :
        /\ population[i].location.y = MAX_Y /\ population[i].direction.y < 0
        /\ MIN_X < population[i].location.x /\ population[i].location.x < MAX_X

\* the numbers of vulnerable and of immune cells
vulnerable_count(pop) == Cardinality({i \in 1 .. Len(pop) : is_vulnerable(pop[i])})
immune_count(pop) == Cardinality({i \in 1 .. Len(pop) : is_immune(pop[i])})

\* C20: over a tick() the number of vulnerable cells never grows and the number of
\* immune cells never shrinks; a cell stops being vulnerable only in the contact pass
\* and becomes immune only in Cell.tick.
C20_MonotoneCompartments ==
    [][pc = "idle" =>
        /\ vulnerable_count(population') <= vulnerable_count(population)
        /\ immune_count(population') >= immune_count(population)
        /\ \A i \in Cells :
            (is_vulnerable(population[i]) /\ ~ is_vulnerable(population'[i]))
            => is_vulnerable(moved'[i])
        /\ \A i \in Cells :
            (~ is_immune(population[i]) /\ is_immune(population'[i]))
            => is_immune(moved'[i])]_vars

====
